---- MODULE Spec2Model ----
(***************************************************************************)
(* Model of pkg/asset/manifests/operators.go: the Manifests asset, its     *)
(* Generate (assembly of the manifest file list from the resolved          *)
(* dependency set) and its Load (reconstruction from persisted files).     *)
(*                                                                         *)
(* Paths and host names are sequences of one-character strings, so that    *)
(* filepath.Join, fmt.Sprintf and the lexicographic order of the sort are  *)
(* computed.  File contents ([]byte) are sequences of string tokens.       *)
(***************************************************************************)
EXTENDS Integers, Sequences, FiniteSets, TLC

VARIABLES
    parents,       \* asset.Parents: resolved Unit name -> instance
    genCount,      \* how many times each Unit was generated in this pass
    m,             \* the Manifests object: KubeSysConfig, FileList
    origin,        \* what was last run on m: "new", "generate", "load"
    genResult,     \* outcome of Generate: "none", "ok", "error", "panic"
    loadResult,    \* outcome of Load: [called, fetchErr, found, err]
    templateData,  \* the bootkubeTemplateData built by the last Generate
    fetched,       \* Units read through dependencies.Get so far
    storage,       \* persisted files: set of [Filename, Data], one per path
    persisted,     \* what the last WriteFiles wrote, and what was there before
    runs           \* the FileLists of the successful Generate runs of this pass

vars == <<parents, genCount, m, origin, genResult, loadResult, templateData,
          fetched, storage, persisted, runs>>

----------------------------------------------------------------------------
(* Bounds of the model. *)

\* Largest master count an install configuration is given.
MaxMasters == 3

\* Enumeration orders (of the Go map, of the file fetcher) are the rotations
\* by 0..MaxRot of the canonical sequence, each also reversed.
MaxRot == 3

\* Number of Manifests objects generated from one dependency set.
MaxRuns == 2

----------------------------------------------------------------------------
(* Strings as character sequences. *)

\* The characters that occur, in ASCII order.
Alphabet ==
    <<"*", "-", ".", "/",
      "0", "1", "2", "3", "4", "5", "6", "7", "8", "9",
      "a", "b", "c", "d", "e", "f", "g", "h", "i", "j", "k", "l", "m",
      "n", "o", "p", "q", "r", "s", "t", "u", "v", "w", "x", "y", "z">>

Ord ==
    [c \in {Alphabet[i] : i \in 1..Len(Alphabet)} |->
        CHOOSE i \in 1..Len(Alphabet) : Alphabet[i] = c]

RECURSIVE LessFrom(_, _, _)
LessFrom(a, b, i) ==
    IF i > Len(b) THEN FALSE
    ELSE IF i > Len(a) THEN TRUE
    ELSE IF a[i] = b[i] THEN LessFrom(a, b, i + 1)
    ELSE Ord[a[i]] < Ord[b[i]]

\* Go's < on strings: lexicographic by byte.
StrLess(a, b) == LessFrom(a, b, 1)

Digits == <<"0", "1", "2", "3", "4", "5", "6", "7", "8", "9">>

\* fmt's %d of a non-negative int.
RECURSIVE Decimal(_)
Decimal(n) ==
    IF n < 10 THEN <<Digits[n + 1]>>
    ELSE Decimal(n \div 10) \o <<Digits[(n % 10) + 1]>>

\* filepath.Join of a directory and a name without separators.
Join(dir, name) == dir \o <<"/">> \o name

\* filepath.Match: "*" matches any sequence of non-separator characters.
RECURSIVE Match(_, _, _, _)
Match(pat, i, s, j) ==
    IF i > Len(pat) THEN j > Len(s)
    ELSE IF pat[i] = "*"
    THEN \/ Match(pat, i + 1, s, j)
         \/ /\ j <= Len(s)
            /\ s[j] # "/"
            /\ Match(pat, i, s, j + 1)
    ELSE /\ j <= Len(s)
         /\ s[j] = pat[i]
         /\ Match(pat, i + 1, s, j + 1)

\* A sequence rotated left by r places, then reversed when rev.
Permute(s, r, rev) ==
    LET n == Len(s)
        rot == [i \in 1..n |-> s[((i - 1 + r) % n) + 1]]
    IN  IF rev THEN [i \in 1..n |-> rot[n + 1 - i]] ELSE rot

Orders == (0..MaxRot) \X BOOLEAN

----------------------------------------------------------------------------
(* Paths and names fixed by the source. *)

\* "manifests"
manifestDir ==
    <<"m", "a", "n", "i", "f", "e", "s", "t", "s">>

\* "cluster-config.yaml"
clusterConfigName ==
    <<"c", "l", "u", "s", "t", "e", "r", "-", "c", "o", "n", "f", "i", "g",
      ".", "y", "a", "m", "l">>

kubeSysConfigPath == Join(manifestDir, clusterConfigName)

\* "*", which Load joins to manifestDir to form its pattern
globStar ==
    <<"*">>

\* The literal part of the format "%s-etcd-%d".
etcdInfix ==
    <<"-", "e", "t", "c", "d", "-">>

\* The entries of the assetData map literal, in the order of the source: the
\* bootkube Unit, the key, and whether its data goes through applyTemplateData.
assetData ==
    <<
      \* "kube-cloud-config.yaml"
      [unit |-> "KubeCloudConfig", templated |-> TRUE,
       name |->
         <<"k", "u", "b", "e", "-", "c", "l", "o", "u", "d", "-", "c", "o",
           "n", "f", "i", "g", ".", "y", "a", "m", "l">>],
      \* "machine-config-server-tls-secret.yaml"
      [unit |-> "MachineConfigServerTLSSecret", templated |-> TRUE,
       name |->
         <<"m", "a", "c", "h", "i", "n", "e", "-", "c", "o", "n", "f", "i",
           "g", "-", "s", "e", "r", "v", "e", "r", "-", "t", "l", "s", "-",
           "s", "e", "c", "r", "e", "t", ".", "y", "a", "m", "l">>],
      \* "openshift-service-signer-secret.yaml"
      [unit |-> "OpenshiftServiceCertSignerSecret", templated |-> TRUE,
       name |->
         <<"o", "p", "e", "n", "s", "h", "i", "f", "t", "-", "s", "e", "r",
           "v", "i", "c", "e", "-", "s", "i", "g", "n", "e", "r", "-", "s",
           "e", "c", "r", "e", "t", ".", "y", "a", "m", "l">>],
      \* "pull.json"
      [unit |-> "Pull", templated |-> TRUE,
       name |->
         <<"p", "u", "l", "l", ".", "j", "s", "o", "n">>],
      \* "cvo-overrides.yaml"
      [unit |-> "CVOOverrides", templated |-> TRUE,
       name |->
         <<"c", "v", "o", "-", "o", "v", "e", "r", "r", "i", "d", "e", "s",
           ".", "y", "a", "m", "l">>],
      \* "host-etcd-service-endpoints.yaml"
      [unit |-> "HostEtcdServiceEndpointsKubeSystem", templated |-> TRUE,
       name |->
         <<"h", "o", "s", "t", "-", "e", "t", "c", "d", "-", "s", "e", "r",
           "v", "i", "c", "e", "-", "e", "n", "d", "p", "o", "i", "n", "t",
           "s", ".", "y", "a", "m", "l">>],
      \* "kube-system-configmap-etcd-serving-ca.yaml"
      [unit |-> "KubeSystemConfigmapEtcdServingCA", templated |-> TRUE,
       name |->
         <<"k", "u", "b", "e", "-", "s", "y", "s", "t", "e", "m", "-", "c",
           "o", "n", "f", "i", "g", "m", "a", "p", "-", "e", "t", "c", "d",
           "-", "s", "e", "r", "v", "i", "n", "g", "-", "c", "a", ".", "y",
           "a", "m", "l">>],
      \* "kube-system-configmap-root-ca.yaml"
      [unit |-> "KubeSystemConfigmapRootCA", templated |-> TRUE,
       name |->
         <<"k", "u", "b", "e", "-", "s", "y", "s", "t", "e", "m", "-", "c",
           "o", "n", "f", "i", "g", "m", "a", "p", "-", "r", "o", "o", "t",
           "-", "c", "a", ".", "y", "a", "m", "l">>],
      \* "kube-system-secret-etcd-client.yaml"
      [unit |-> "KubeSystemSecretEtcdClient", templated |-> TRUE,
       name |->
         <<"k", "u", "b", "e", "-", "s", "y", "s", "t", "e", "m", "-", "s",
           "e", "c", "r", "e", "t", "-", "e", "t", "c", "d", "-", "c", "l",
           "i", "e", "n", "t", ".", "y", "a", "m", "l">>],
      \* "04-openshift-machine-config-operator.yaml"
      [unit |-> "OpenshiftMachineConfigOperator", templated |-> FALSE,
       name |->
         <<"0", "4", "-", "o", "p", "e", "n", "s", "h", "i", "f", "t", "-",
           "m", "a", "c", "h", "i", "n", "e", "-", "c", "o", "n", "f", "i",
           "g", "-", "o", "p", "e", "r", "a", "t", "o", "r", ".", "y", "a",
           "m", "l">>],
      \* "09-openshift-service-signer-namespace.yaml"
      [unit |-> "OpenshiftServiceCertSignerNamespace", templated |-> FALSE,
       name |->
         <<"0", "9", "-", "o", "p", "e", "n", "s", "h", "i", "f", "t", "-",
           "s", "e", "r", "v", "i", "c", "e", "-", "s", "i", "g", "n", "e",
           "r", "-", "n", "a", "m", "e", "s", "p", "a", "c", "e", ".", "y",
           "a", "m", "l">>],
      \* "etcd-service.yaml"
      [unit |-> "EtcdServiceKubeSystem", templated |-> FALSE,
       name |->
         <<"e", "t", "c", "d", "-", "s", "e", "r", "v", "i", "c", "e", ".",
           "y", "a", "m", "l">>],
      \* "host-etcd-service.yaml"
      [unit |-> "HostEtcdServiceKubeSystem", templated |-> FALSE,
       name |->
         <<"h", "o", "s", "t", "-", "e", "t", "c", "d", "-", "s", "e", "r",
           "v", "i", "c", "e", ".", "y", "a", "m", "l">>]
    >>

\* The file names of the manifest sub-units: stable constants, one set per
\* sub-unit, directly under manifestDir.
subUnitNames ==
    [Ingress |->
       <<
         \* "cluster-ingress-02-config.yml"
         <<"c", "l", "u", "s", "t", "e", "r", "-", "i", "n", "g", "r", "e",
           "s", "s", "-", "0", "2", "-", "c", "o", "n", "f", "i", "g", ".",
           "y", "m", "l">>
       >>,
     DNS |->
       <<
         \* "cluster-dns-02-config.yml"
         <<"c", "l", "u", "s", "t", "e", "r", "-", "d", "n", "s", "-", "0",
           "2", "-", "c", "o", "n", "f", "i", "g", ".", "y", "m", "l">>
       >>,
     Networking |->
       <<
         \* "cluster-network-01-crd.yml"
         <<"c", "l", "u", "s", "t", "e", "r", "-", "n", "e", "t", "w", "o",
           "r", "k", "-", "0", "1", "-", "c", "r", "d", ".", "y", "m", "l">>,
         \* "cluster-network-02-config.yml"
         <<"c", "l", "u", "s", "t", "e", "r", "-", "n", "e", "t", "w", "o",
           "r", "k", "-", "0", "2", "-", "c", "o", "n", "f", "i", "g", ".",
           "y", "m", "l">>
       >>,
     Infrastructure |->
       <<
         \* "cluster-infrastructure-02-config.yml"
         <<"c", "l", "u", "s", "t", "e", "r", "-", "i", "n", "f", "r", "a",
           "s", "t", "r", "u", "c", "t", "u", "r", "e", "-", "0", "2", "-",
           "c", "o", "n", "f", "i", "g", ".", "y", "m", "l">>
       >>
    ]

\* Paths of files a storage may hold before anything is written.
\* "manifests/extra.yaml"
pathExtra ==
    <<"m", "a", "n", "i", "f", "e", "s", "t", "s", "/", "e", "x", "t", "r",
      "a", ".", "y", "a", "m", "l">>

\* "manifests/aaa.yaml"
pathAaa ==
    <<"m", "a", "n", "i", "f", "e", "s", "t", "s", "/", "a", "a", "a", ".",
      "y", "a", "m", "l">>

\* "manifests/sub/x.yaml", not directly under manifestDir
pathNested ==
    <<"m", "a", "n", "i", "f", "e", "s", "t", "s", "/", "s", "u", "b", "/",
      "x", ".", "y", "a", "m", "l">>

\* "auth/kubeconfig", outside manifestDir
pathAuth ==
    <<"a", "u", "t", "h", "/", "k", "u", "b", "e", "c", "o", "n", "f", "i",
      "g">>

\* Cluster names of the install configurations.
\* "demo"
nameDemo ==
    <<"d", "e", "m", "o">>

\* "ab"
nameAb ==
    <<"a", "b">>

----------------------------------------------------------------------------
(* asset.File and asset.SortFiles. *)

File(filename, data) == [Filename |-> filename, Data |-> data]

\* Insertion of f into a list sorted by Filename, before the first file
\* whose Filename is not less than f's.
RECURSIVE InsertFile(_, _)
InsertFile(f, sorted) ==
    IF sorted = <<>> THEN <<f>>
    ELSE IF StrLess(Head(sorted).Filename, f.Filename)
         THEN <<Head(sorted)>> \o InsertFile(f, Tail(sorted))
         ELSE <<f>> \o sorted

\* asset.SortFiles: sorts the list in place, increasing by Filename.
RECURSIVE SortFiles(_)
SortFiles(files) ==
    IF files = <<>> THEN <<>>
    ELSE InsertFile(Head(files), SortFiles(Tail(files)))

----------------------------------------------------------------------------
(* configurationObject, configMap and its YAML encoding. *)

\* genericData with no entry (a nil map).
NoData == [k \in {} |-> <<>>]

\* The zero configurationObject.
ZeroObject ==
    [apiVersion |-> "", kind |-> "", name |-> "", namespace |-> "",
     data |-> NoData]

configMap(namespace, name, data) ==
    [apiVersion |-> "v1", kind |-> "ConfigMap", name |-> name,
     namespace |-> namespace, data |-> data]

\* The keys a genericData may hold, in the order the encoder writes them.
DataKeys == <<"install-config">>

KeyToken == [k \in {"install-config"} |-> "data.install-config:"]

KeyOfToken == [t \in {"data.install-config:"} |-> "install-config"]

FieldTokens ==
    {"apiVersion:", "kind:", "metadata.name:", "metadata.namespace:"}

Quote == "\""

\* Bytes that are no YAML document.
Invalid == "%invalid"

IsScalar(tok) ==
    /\ tok \notin FieldTokens
    /\ tok \notin DOMAIN KeyOfToken
    /\ tok # Quote
    /\ tok # Invalid

OptField(key, value) == IF value = "" THEN <<>> ELSE <<key, value>>

RECURSIVE MarshalData(_, _)
MarshalData(data, i) ==
    IF i > Len(DataKeys) THEN <<>>
    ELSE (IF DataKeys[i] \in DOMAIN data
          THEN <<KeyToken[DataKeys[i]], Quote>> \o data[DataKeys[i]]
               \o <<Quote>>
          ELSE <<>>)
         \o MarshalData(data, i + 1)

\* yaml.Marshal of a configurationObject: the fields in key order, empty
\* ones omitted, every data value quoted.
Marshal(obj) ==
    OptField("apiVersion:", obj.apiVersion)
    \o MarshalData(obj.data, 1)
    \o OptField("kind:", obj.kind)
    \o OptField("metadata.name:", obj.name)
    \o OptField("metadata.namespace:", obj.namespace)

\* Index of the first Quote at or after i, 0 when there is none.
RECURSIVE ClosingQuote(_, _)
ClosingQuote(b, i) ==
    IF i > Len(b) THEN 0
    ELSE IF b[i] = Quote THEN i
    ELSE ClosingQuote(b, i + 1)

SetField(obj, tok, value) ==
    CASE tok = "apiVersion:" -> [obj EXCEPT !.apiVersion = value]
      [] tok = "kind:" -> [obj EXCEPT !.kind = value]
      [] tok = "metadata.name:" -> [obj EXCEPT !.name = value]
      [] tok = "metadata.namespace:" -> [obj EXCEPT !.namespace = value]

SetData(obj, key, value) ==
    [obj EXCEPT !.data =
        [k \in DOMAIN obj.data \cup {key} |->
            IF k = key THEN value ELSE obj.data[k]]]

RECURSIVE UnmarshalFrom(_, _, _)
UnmarshalFrom(b, i, obj) ==
    IF i > Len(b) THEN [err |-> FALSE, obj |-> obj]
    ELSE IF /\ b[i] \in FieldTokens
            /\ i + 1 <= Len(b)
            /\ IsScalar(b[i + 1])
    THEN UnmarshalFrom(b, i + 2, SetField(obj, b[i], b[i + 1]))
    ELSE IF /\ b[i] \in DOMAIN KeyOfToken
            /\ i + 1 <= Len(b)
            /\ b[i + 1] = Quote
            /\ ClosingQuote(b, i + 2) # 0
    THEN LET j == ClosingQuote(b, i + 2)
         IN  UnmarshalFrom(b, j + 1,
                 SetData(obj, KeyOfToken[b[i]], SubSeq(b, i + 2, j - 1)))
    ELSE [err |-> TRUE, obj |-> obj]

\* yaml.Unmarshal into a zero configurationObject: the empty document
\* decodes to the zero object; anything that is no sequence of fields is an
\* error.
Unmarshal(b) == UnmarshalFrom(b, 1, ZeroObject)

----------------------------------------------------------------------------
(* text/template, as far as applyTemplateData uses it.  A template is a    *)
(* sequence of tokens: an action naming a field, an unclosed action, or    *)
(* literal text.                                                           *)

\* The actions "{{.Field}}" and the field each names.
FieldRef ==
    ("{{.Base64encodeCloudProviderConfig}}" :> "Base64encodeCloudProviderConfig") @@
    ("{{.EtcdCaCert}}" :> "EtcdCaCert") @@
    ("{{.EtcdClientCert}}" :> "EtcdClientCert") @@
    ("{{.EtcdClientKey}}" :> "EtcdClientKey") @@
    ("{{.KubeCaCert}}" :> "KubeCaCert") @@
    ("{{.KubeCaKey}}" :> "KubeCaKey") @@
    ("{{.McsTLSCert}}" :> "McsTLSCert") @@
    ("{{.McsTLSKey}}" :> "McsTLSKey") @@
    ("{{.PullSecretBase64}}" :> "PullSecretBase64") @@
    ("{{.RootCaCert}}" :> "RootCaCert") @@
    ("{{.ServiceServingCaCert}}" :> "ServiceServingCaCert") @@
    ("{{.ServiceServingCaKey}}" :> "ServiceServingCaKey") @@
    ("{{.CVOClusterID}}" :> "CVOClusterID") @@
    ("{{.EtcdEndpointHostnames}}" :> "EtcdEndpointHostnames") @@
    ("{{.EtcdEndpointDNSSuffix}}" :> "EtcdEndpointDNSSuffix") @@
    ("{{.Undefined}}" :> "Undefined")

\* An action that is not closed: the template does not parse.
Unclosed == "{{"

RECURSIVE JoinNames(_)
JoinNames(names) ==
    IF names = <<>> THEN <<>>
    ELSE IF Len(names) = 1 THEN Head(names)
    ELSE Head(names) \o <<" ">> \o JoinNames(Tail(names))

\* What an action prints for a field of the context: a string as it is, a
\* slice of strings as [a b c].
FieldText(td, field) ==
    IF field = "EtcdEndpointHostnames"
    THEN <<"[">> \o JoinNames(td[field]) \o <<"]">>
    ELSE td[field]

\* template.Parse: fails on an unclosed action.
ParseFails(data) == \E i \in 1..Len(data) : data[i] = Unclosed

\* template.Execute: the output so far and whether execution failed; an
\* action naming a field the context does not have fails.
RECURSIVE Execute(_, _, _, _)
Execute(data, i, td, buf) ==
    IF i > Len(data) THEN [err |-> FALSE, buf |-> buf]
    ELSE IF data[i] \in DOMAIN FieldRef
    THEN IF FieldRef[data[i]] \in DOMAIN td
         THEN Execute(data, i + 1, td,
                      buf \o FieldText(td, FieldRef[data[i]]))
         ELSE [err |-> TRUE, buf |-> buf]
    ELSE Execute(data, i + 1, td, buf \o <<data[i]>>)

\* applyTemplateData: template.Must panics when Parse fails, and an
\* execution error is turned into a panic; otherwise the buffer's bytes.
applyTemplateData(data, td) ==
    IF ParseFails(data) THEN [panic |-> TRUE, bytes |-> <<>>]
    ELSE LET r == Execute(data, 1, td, <<>>)
         IN  IF r.err THEN [panic |-> TRUE, bytes |-> <<>>]
             ELSE [panic |-> FALSE, bytes |-> r.buf]

\* base64.StdEncoding.EncodeToString.
Base64(bytes) == <<"base64(">> \o bytes \o <<")">>

----------------------------------------------------------------------------
(* The Units and the instances the resolver can hand to Manifests. *)

\* Faulty variant: tls.MCSCertKey is missing from the declared list.
DependenciesWithoutMCSCertKey ==
    <<"ClusterID", "InstallConfig", "Ingress", "DNS", "Infrastructure",
      "Networking", "RootCA", "EtcdCA", "IngressCertKey", "KubeCA",
      "ServiceServingCA", "EtcdClientCertKey", "KubeletCertKey",
      "KubeCloudConfig", "MachineConfigServerTLSSecret",
      "OpenshiftServiceCertSignerSecret", "Pull", "CVOOverrides",
      "HostEtcdServiceEndpointsKubeSystem",
      "KubeSystemConfigmapEtcdServingCA", "KubeSystemConfigmapRootCA",
      "KubeSystemSecretEtcdClient", "OpenshiftMachineConfigOperator",
      "OpenshiftServiceCertSignerNamespace", "EtcdServiceKubeSystem",
      "HostEtcdServiceKubeSystem">>

\* Manifests.Dependencies, in the order of the source.
Dependencies ==
    <<"ClusterID", "InstallConfig", "Ingress", "DNS", "Infrastructure",
      "Networking", "RootCA", "EtcdCA", "IngressCertKey", "KubeCA",
      "ServiceServingCA", "EtcdClientCertKey", "MCSCertKey", "KubeletCertKey",
      "KubeCloudConfig", "MachineConfigServerTLSSecret",
      "OpenshiftServiceCertSignerSecret", "Pull", "CVOOverrides",
      "HostEtcdServiceEndpointsKubeSystem",
      "KubeSystemConfigmapEtcdServingCA", "KubeSystemConfigmapRootCA",
      "KubeSystemSecretEtcdClient", "OpenshiftMachineConfigOperator",
      "OpenshiftServiceCertSignerNamespace", "EtcdServiceKubeSystem",
      "HostEtcdServiceKubeSystem">>

Declared == {Dependencies[i] : i \in 1..Len(Dependencies)}

\* The Units Generate fetches with dependencies.Get.
GenerateGets == {"InstallConfig", "Ingress", "DNS", "Networking",
                 "Infrastructure"}

\* The Units of the first dependencies.Get of generateBootKubeManifests.
BootKubeGets ==
    {"ClusterID", "InstallConfig", "EtcdCA", "EtcdClientCertKey", "KubeCA",
     "MCSCertKey", "RootCA", "ServiceServingCA"}

\* The Units of its second dependencies.Get.
BootKubeAssetGets ==
    {"KubeCloudConfig", "MachineConfigServerTLSSecret",
     "OpenshiftServiceCertSignerSecret", "Pull", "CVOOverrides",
     "HostEtcdServiceEndpointsKubeSystem",
     "KubeSystemConfigmapEtcdServingCA", "KubeSystemConfigmapRootCA",
     "KubeSystemSecretEtcdClient", "OpenshiftMachineConfigOperator",
     "OpenshiftServiceCertSignerNamespace", "EtcdServiceKubeSystem",
     "HostEtcdServiceKubeSystem"}

TLSUnits ==
    {"RootCA", "EtcdCA", "IngressCertKey", "KubeCA", "ServiceServingCA",
     "EtcdClientCertKey", "MCSCertKey", "KubeletCertKey"}

SubUnits == {"Ingress", "DNS", "Infrastructure", "Networking"}

TemplatedUnits ==
    {assetData[i].unit : i \in {j \in 1..Len(assetData) : assetData[j].templated}}

\* "install-config.yml"
installConfigFilename ==
    <<"i", "n", "s", "t", "a", "l", "l", "-", "c", "o", "n", "f", "i", "g",
      ".", "y", "m", "l">>

\* The file of an InstallConfig: the encoding of its Config.
InstallConfigData(config) ==
    <<"baseDomain:">> \o config.BaseDomain
    \o <<"masters:">> \o Decimal(config.Masters)
    \o <<"name:">> \o config.Name
    \o <<"pullSecret:">> \o config.PullSecret

InstallConfigOf(name, masters) ==
    LET config == [Name |-> name, BaseDomain |-> <<"example.com">>,
                   PullSecret |-> <<"pull-secret">>, Masters |-> masters]
    IN  [Config |-> config,
         Files |-> <<File(installConfigFilename, InstallConfigData(config))>>]

InstallConfigs ==
    {InstallConfigOf(n, k) : n \in {nameDemo, nameAb}, k \in 0..MaxMasters}

\* The template each templated bootkube Unit ships.
DefaultTemplate ==
    [KubeCloudConfig |->
        <<"cloud-provider-config:", "{{.Base64encodeCloudProviderConfig}}">>,
     MachineConfigServerTLSSecret |->
        <<"tls.crt:", "{{.McsTLSCert}}", "tls.key:", "{{.McsTLSKey}}">>,
     OpenshiftServiceCertSignerSecret |->
        <<"tls.crt:", "{{.ServiceServingCaCert}}",
          "tls.key:", "{{.ServiceServingCaKey}}">>,
     Pull |-> <<".dockerconfigjson:", "{{.PullSecretBase64}}">>,
     CVOOverrides |-> <<"clusterID:", "{{.CVOClusterID}}">>,
     HostEtcdServiceEndpointsKubeSystem |->
        <<"hostnames:", "{{.EtcdEndpointHostnames}}",
          "suffix:", "{{.EtcdEndpointDNSSuffix}}">>,
     KubeSystemConfigmapEtcdServingCA |->
        <<"ca.crt:", "{{.EtcdCaCert}}", "kube-ca.crt:", "{{.KubeCaCert}}",
          "kube-ca.key:", "{{.KubeCaKey}}">>,
     KubeSystemConfigmapRootCA |-> <<"ca.crt:", "{{.RootCaCert}}">>,
     KubeSystemSecretEtcdClient |->
        <<"tls.crt:", "{{.EtcdClientCert}}", "tls.key:", "{{.EtcdClientKey}}">>]

\* Templates that do not render: one names a field the context lacks, one
\* does not parse.
BrokenTemplates ==
    {<<"value:", "{{.Undefined}}">>, <<"value:", "{{">>}

BootKubeInstance(u, data) ==
    LET i == CHOOSE j \in 1..Len(assetData) : assetData[j].unit = u
    IN  [Files |-> <<File(assetData[i].name, data)>>]

\* Whether some templated Unit resolved so far carries a broken template.
HasBroken(deps) ==
    \E u \in TemplatedUnits \cap DOMAIN deps :
        deps[u].Files[1].Data \in BrokenTemplates

\* The instances generating Unit u can yield, given the Units resolved so
\* far.  At most one templated Unit is given a broken template.
Instances(u, deps) ==
    CASE u = "InstallConfig" -> InstallConfigs
      [] u = "ClusterID" -> {[ClusterID |-> <<"cluster-id">>]}
      [] u \in TLSUnits -> {[Cert |-> <<u, ".crt">>, Key |-> <<u, ".key">>]}
      [] u \in SubUnits ->
            {[Files |->
                [i \in 1..Len(subUnitNames[u]) |->
                    File(Join(manifestDir, subUnitNames[u][i]), <<u, "config">>)]]}
      [] u \in TemplatedUnits ->
            {BootKubeInstance(u, DefaultTemplate[u])}
            \cup (IF HasBroken(deps) THEN {}
                  ELSE {BootKubeInstance(u, t) : t \in BrokenTemplates})
      [] OTHER -> {BootKubeInstance(u, <<u, "manifest">>)}

----------------------------------------------------------------------------
(* Generate. *)

\* asset.Parents.Get: the stored instance of a declared, resolved Unit.
Get(deps, u) == deps[u]

\* Faulty variant: the index runs from 1, not from 0.
etcdEndpointHostnamesFromOne(config) ==
    [i \in 1..config.Masters |-> config.Name \o etcdInfix \o Decimal(i)]

\* The loop that fills etcdEndpointHostnames: one name per master,
\* fmt.Sprintf("%s-etcd-%d", name, i) for i = 0 .. MasterCount()-1.
etcdEndpointHostnames(config) ==
    [i \in 1..config.Masters |-> config.Name \o etcdInfix \o Decimal(i - 1)]

\* Faulty variant: installConfig is left out of the dependencies.Get of
\* generateBootKubeManifests, so the context is built from an InstallConfig
\* that was never filled in.
bootkubeTemplateDataUnfetched(deps) ==
    [Base64encodeCloudProviderConfig |-> <<>>,
     EtcdCaCert |-> Get(deps, "EtcdCA").Cert,
     EtcdClientCert |-> Base64(Get(deps, "EtcdClientCertKey").Cert),
     EtcdClientKey |-> Base64(Get(deps, "EtcdClientCertKey").Key),
     KubeCaCert |-> Base64(Get(deps, "KubeCA").Cert),
     KubeCaKey |-> Base64(Get(deps, "KubeCA").Key),
     McsTLSCert |-> Base64(Get(deps, "MCSCertKey").Cert),
     McsTLSKey |-> Base64(Get(deps, "MCSCertKey").Key),
     PullSecretBase64 |-> Base64(<<>>),
     RootCaCert |-> Get(deps, "RootCA").Cert,
     ServiceServingCaCert |-> Base64(Get(deps, "ServiceServingCA").Cert),
     ServiceServingCaKey |-> Base64(Get(deps, "ServiceServingCA").Key),
     CVOClusterID |-> Get(deps, "ClusterID").ClusterID,
     EtcdEndpointHostnames |-> <<>>,
     EtcdEndpointDNSSuffix |-> <<>>]

\* The bootkubeTemplateData literal of generateBootKubeManifests.
bootkubeTemplateData(deps) ==
    LET installConfig == Get(deps, "InstallConfig")
    IN  [Base64encodeCloudProviderConfig |-> <<>>,
         EtcdCaCert |-> Get(deps, "EtcdCA").Cert,
         EtcdClientCert |-> Base64(Get(deps, "EtcdClientCertKey").Cert),
         EtcdClientKey |-> Base64(Get(deps, "EtcdClientCertKey").Key),
         KubeCaCert |-> Base64(Get(deps, "KubeCA").Cert),
         KubeCaKey |-> Base64(Get(deps, "KubeCA").Key),
         McsTLSCert |-> Base64(Get(deps, "MCSCertKey").Cert),
         McsTLSKey |-> Base64(Get(deps, "MCSCertKey").Key),
         PullSecretBase64 |-> Base64(installConfig.Config.PullSecret),
         RootCaCert |-> Get(deps, "RootCA").Cert,
         ServiceServingCaCert |-> Base64(Get(deps, "ServiceServingCA").Cert),
         ServiceServingCaKey |-> Base64(Get(deps, "ServiceServingCA").Key),
         CVOClusterID |-> Get(deps, "ClusterID").ClusterID,
         EtcdEndpointHostnames |->
            etcdEndpointHostnames(installConfig.Config),
         EtcdEndpointDNSSuffix |-> installConfig.Config.BaseDomain]

\* One value of the assetData map: rendered when the entry is templated,
\* the Unit's bytes otherwise.
AssetBytes(entry, deps, td) ==
    LET data == Get(deps, entry.unit).Files[1].Data
    IN  IF entry.templated THEN applyTemplateData(data, td)
        ELSE [panic |-> FALSE, bytes |-> data]

\* The assetData map literal of generateBootKubeManifests with the context
\* it is rendered against: whether a render panicked, and the entries in
\* the order of the source.
bootkubeAssetData(deps) ==
    LET td == bootkubeTemplateData(deps)
        rendered == [i \in 1..Len(assetData) |->
                        AssetBytes(assetData[i], deps, td)]
    IN  [td |-> td,
         panic |-> \E i \in 1..Len(assetData) : rendered[i].panic,
         entries |-> [i \in 1..Len(assetData) |->
                        [name |-> assetData[i].name,
                         data |-> rendered[i].bytes]]]

\* The files generateBootKubeManifests returns: one per entry of the map,
\* appended in the order `order` in which the map is ranged over.
generateBootKubeManifests(entries, order) ==
    LET ranged == Permute(entries, order[1], order[2])
    IN  [i \in 1..Len(ranged) |->
            File(Join(manifestDir, ranged[i].name), ranged[i].data)]

\* Faulty variant: the call of asset.SortFiles is missing.
GenerateFileListUnsorted(anchor, bootkubeFiles, deps) ==
    <<anchor>> \o bootkubeFiles
    \o Get(deps, "Ingress").Files
    \o Get(deps, "DNS").Files
    \o Get(deps, "Networking").Files
    \o Get(deps, "Infrastructure").Files

\* Faulty variant: the bootkube files are appended after the sort.
GenerateFileListSortedEarly(anchor, bootkubeFiles, deps) ==
    SortFiles(<<anchor>>
              \o Get(deps, "Ingress").Files
              \o Get(deps, "DNS").Files
              \o Get(deps, "Networking").Files
              \o Get(deps, "Infrastructure").Files)
    \o bootkubeFiles

\* The FileList Generate leaves when nothing fails: the anchor, the
\* bootkube files and the sub-units' files, sorted.
GenerateFileList(anchor, bootkubeFiles, deps) ==
    SortFiles(<<anchor>> \o bootkubeFiles
              \o Get(deps, "Ingress").Files
              \o Get(deps, "DNS").Files
              \o Get(deps, "Networking").Files
              \o Get(deps, "Infrastructure").Files)

\* The KubeSysConfig Generate builds.
GenerateKubeSysConfig(deps) ==
    configMap("kube-system", "cluster-config-v1",
              [k \in {"install-config"} |->
                  Get(deps, "InstallConfig").Files[1].Data])

NoTemplateData == [f \in {} |-> <<>>]

Fresh == [KubeSysConfig |-> ZeroObject, FileList |-> <<>>]

NoLoad ==
    [called |-> FALSE, fetchErr |-> FALSE, found |-> FALSE, err |-> FALSE]

\* Manifests.Generate on a new Manifests object.  `marshalErr` is whether
\* yaml.Marshal returns an error; the order the assetData map is ranged over
\* is any of Orders.  A Get of a Unit that is not among the parents panics,
\* as a failed render does.
Generate(marshalErr) ==
    /\ origin = "new"
    /\ DOMAIN parents = Declared
    /\ Len(runs) < MaxRuns
    /\ origin' = "generate"
    /\ UNCHANGED <<parents, genCount, loadResult, storage, persisted>>
    /\ IF ~(GenerateGets \subseteq DOMAIN parents)
       THEN /\ genResult' = "panic"
            /\ fetched' = fetched \cup GenerateGets
            /\ UNCHANGED <<m, templateData, runs>>
       ELSE LET obj == GenerateKubeSysConfig(parents)
                anchor == File(kubeSysConfigPath, Marshal(obj))
            IN  IF marshalErr
                THEN /\ genResult' = "error"
                     /\ m' = [m EXCEPT !.KubeSysConfig = obj]
                     /\ fetched' = fetched \cup GenerateGets
                     /\ UNCHANGED <<templateData, runs>>
                ELSE IF ~(BootKubeGets \cup BootKubeAssetGets
                            \subseteq DOMAIN parents)
                THEN /\ genResult' = "panic"
                     /\ m' = [KubeSysConfig |-> obj, FileList |-> <<anchor>>]
                     /\ fetched' = fetched \cup GenerateGets \cup BootKubeGets
                                   \cup BootKubeAssetGets
                     /\ UNCHANGED <<templateData, runs>>
                ELSE LET bk == bootkubeAssetData(parents)
                     IN  /\ fetched' = fetched \cup GenerateGets
                                       \cup BootKubeGets
                                       \cup BootKubeAssetGets
                         /\ templateData' = bk.td
                         /\ IF bk.panic
                            THEN /\ genResult' = "panic"
                                 /\ m' = [KubeSysConfig |-> obj,
                                          FileList |-> <<anchor>>]
                                 /\ UNCHANGED runs
                            ELSE /\ genResult' = "ok"
                                 /\ \E order \in Orders :
                                      m' = [KubeSysConfig |-> obj,
                                            FileList |->
                                              GenerateFileList(anchor,
                                                generateBootKubeManifests(
                                                    bk.entries, order),
                                                parents)]
                                 /\ runs' = Append(runs, m'.FileList)

\* Manifests.Files.
Files == m.FileList

----------------------------------------------------------------------------
(* Load. *)

RECURSIVE SetToSeq(_)
SetToSeq(S) ==
    IF S = {} THEN <<>>
    ELSE LET f == CHOOSE x \in S : TRUE
         IN  <<f>> \o SetToSeq(S \ {f})

\* asset.FileFetcher.FetchByPattern: the stored files whose path matches
\* the pattern, in the order `order` of the enumeration.
FetchByPattern(files, pattern, order) ==
    LET matching == {f \in files : Match(pattern, 1, f.Filename, 1)}
    IN  Permute(SortFiles(SetToSeq(matching)), order[1], order[2])

\* The loop of Load over fileList from index i on: whether the anchor was
\* found, the object decoded from it, and whether decoding failed.
RECURSIVE LoadScan(_, _, _, _)
LoadScan(fileList, i, kubeSysConfig, found) ==
    IF i > Len(fileList)
    THEN [err |-> FALSE, found |-> found, obj |-> kubeSysConfig]
    ELSE IF fileList[i].Filename = kubeSysConfigPath
    THEN LET r == UnmarshalFrom(fileList[i].Data, 1, kubeSysConfig)
         IN  IF r.err
             THEN [err |-> TRUE, found |-> FALSE, obj |-> kubeSysConfig]
             ELSE LoadScan(fileList, i + 1, r.obj, TRUE)
    ELSE LoadScan(fileList, i + 1, kubeSysConfig, found)

\* Faulty variant: a missing anchor is reported as an error.
LoadOutcomeMissingIsError(fetchErr, fileList) ==
    IF fetchErr THEN [found |-> FALSE, err |-> TRUE, assign |-> FALSE]
    ELSE IF Len(fileList) = 0
    THEN [found |-> FALSE, err |-> FALSE, assign |-> FALSE]
    ELSE LET scan == LoadScan(fileList, 1, ZeroObject, FALSE)
         IN  IF scan.err \/ ~scan.found
             THEN [found |-> FALSE, err |-> TRUE, assign |-> FALSE]
             ELSE [found |-> TRUE, err |-> FALSE, assign |-> TRUE,
                   obj |-> scan.obj]

\* Faulty variant: an anchor that does not decode is reported as not found.
LoadOutcomeSwallowsError(fetchErr, fileList) ==
    IF fetchErr THEN [found |-> FALSE, err |-> TRUE, assign |-> FALSE]
    ELSE IF Len(fileList) = 0
    THEN [found |-> FALSE, err |-> FALSE, assign |-> FALSE]
    ELSE LET scan == LoadScan(fileList, 1, ZeroObject, FALSE)
         IN  IF scan.err \/ ~scan.found
             THEN [found |-> FALSE, err |-> FALSE, assign |-> FALSE]
             ELSE [found |-> TRUE, err |-> FALSE, assign |-> TRUE,
                   obj |-> scan.obj]

\* What Load returns and assigns, given what FetchByPattern returned.
LoadOutcome(fetchErr, fileList) ==
    IF fetchErr THEN [found |-> FALSE, err |-> TRUE, assign |-> FALSE]
    ELSE IF Len(fileList) = 0
    THEN [found |-> FALSE, err |-> FALSE, assign |-> FALSE]
    ELSE LET scan == LoadScan(fileList, 1, ZeroObject, FALSE)
         IN  IF scan.err
             THEN [found |-> FALSE, err |-> TRUE, assign |-> FALSE]
             ELSE IF ~scan.found
             THEN [found |-> FALSE, err |-> FALSE, assign |-> FALSE]
             ELSE [found |-> TRUE, err |-> FALSE, assign |-> TRUE,
                   obj |-> scan.obj]

\* Faulty variant: the call of asset.SortFiles is missing.
LoadFileListUnsorted(fileList) == fileList

\* The FileList Load leaves when it finds the anchor.
LoadFileList(fileList) == SortFiles(fileList)

\* Manifests.Load on a new Manifests object, before the resolver starts or
\* once files were written.  `fetchErr` is whether the fetch fails; the order
\* the fetcher enumerates in is any of Orders.
Load(fetchErr) ==
    /\ origin = "new"
    /\ DOMAIN parents = {} \/ persisted.done
    /\ origin' = "load"
    /\ \E order \in (IF fetchErr THEN {<<0, FALSE>>} ELSE Orders) :
          LET fileList == FetchByPattern(storage,
                                         Join(manifestDir, globStar), order)
              out == LoadOutcome(fetchErr, fileList)
          IN  /\ loadResult' = [called |-> TRUE, fetchErr |-> fetchErr,
                                found |-> out.found, err |-> out.err]
              /\ m' = IF out.assign
                      THEN [KubeSysConfig |-> out.obj,
                            FileList |-> LoadFileList(fileList)]
                      ELSE m
    /\ UNCHANGED <<parents, genCount, genResult, templateData, fetched,
                   storage, persisted, runs>>

----------------------------------------------------------------------------
(* The collaborators: the resolver, the writer of the files, the storage. *)

\* The next Unit the resolver generates: the first declared one that is not
\* resolved yet.
NextUnit(deps) ==
    Dependencies[CHOOSE i \in 1..Len(Dependencies) :
                    /\ Dependencies[i] \notin DOMAIN deps
                    /\ \A j \in 1..(i - 1) : Dependencies[j] \in DOMAIN deps]

\* The resolver generates the next declared Unit, once, and keeps the
\* instance among the parents.
ResolveUnit ==
    /\ origin = "new"
    /\ ~loadResult.called
    /\ DOMAIN parents # Declared
    /\ LET u == NextUnit(parents)
       IN  \E inst \in Instances(u, parents) :
              /\ parents' = [x \in DOMAIN parents \cup {u} |->
                                IF x = u THEN inst ELSE parents[x]]
              /\ genCount' = [genCount EXCEPT ![u] = @ + 1]
    /\ UNCHANGED <<m, origin, genResult, loadResult, templateData, fetched,
                   storage, persisted, runs>>

\* The files of a successfully generated Manifests are written: each
\* replaces what the storage held at its path.
WriteFiles ==
    /\ origin = "generate"
    /\ genResult = "ok"
    /\ ~persisted.done
    /\ storage' = {f \in storage :
                      \A i \in 1..Len(Files) : Files[i].Filename # f.Filename}
                  \cup {Files[i] : i \in 1..Len(Files)}
    /\ persisted' = [done |-> TRUE, FileList |-> Files,
                     KubeSysConfig |-> m.KubeSysConfig]
    /\ UNCHANGED <<parents, genCount, m, origin, genResult, loadResult,
                   templateData, fetched, runs>>

\* A new Manifests object takes the place of the used one.  A panic ended the
\* process: nothing follows it.
NewManifests ==
    /\ origin # "new"
    /\ genResult # "panic"
    /\ m' = Fresh
    /\ origin' = "new"
    /\ genResult' = "none"
    /\ loadResult' = NoLoad
    /\ templateData' = NoTemplateData
    /\ fetched' = {}
    /\ UNCHANGED <<parents, genCount, storage, persisted, runs>>

\* A configurationObject written by an earlier run.
OldObject ==
    configMap("kube-system", "cluster-config-v1",
              [k \in {"install-config"} |-> <<"name:", "old">>])

\* What the storage may hold before this run.
InitialStorages ==
    { {},
      {File(pathAuth, <<"kubeconfig">>), File(pathNested, <<"nested">>)},
      {File(pathExtra, <<"extra">>), File(pathAaa, <<Invalid>>)},
      {File(kubeSysConfigPath, <<Invalid>>)},
      {File(kubeSysConfigPath, <<"kind:", Invalid>>),
       File(pathExtra, <<"extra">>), File(pathAaa, <<"aaa">>)},
      {File(kubeSysConfigPath, Marshal(OldObject)),
       File(pathExtra, <<"extra">>), File(pathAuth, <<"kubeconfig">>)},
      {File(kubeSysConfigPath, <<>>)} }

Init ==
    /\ parents = [u \in {} |-> <<>>]
    /\ genCount = [u \in Declared |-> 0]
    /\ m = Fresh
    /\ origin = "new"
    /\ genResult = "none"
    /\ loadResult = NoLoad
    /\ templateData = NoTemplateData
    /\ fetched = {}
    /\ storage \in InitialStorages
    /\ persisted = [done |-> FALSE, FileList |-> <<>>,
                    KubeSysConfig |-> ZeroObject]
    /\ runs = <<>>

Next ==
    \/ ResolveUnit
    \/ \E marshalErr \in BOOLEAN : Generate(marshalErr)
    \/ WriteFiles
    \/ \E fetchErr \in BOOLEAN : Load(fetchErr)
    \/ NewManifests

Spec == Init /\ [][Next]_vars

----------------------------------------------------------------------------
(* Properties. *)

GenerateSucceeded == origin = "generate" /\ genResult = "ok"

LoadFound == origin = "load" /\ loadResult.found

StrictlyIncreasing(files) ==
    \A i \in 1..(Len(files) - 1) :
        StrLess(files[i].Filename, files[i + 1].Filename)

Pattern == Join(manifestDir, globStar)

\* The stored files directly under manifestDir.
Matching == {f \in storage : Match(Pattern, 1, f.Filename, 1)}

PathsOf(files) == {files[i].Filename : i \in 1..Len(files)}

\* C1: after a successful Generate and after a Load that found the anchor,
\* the paths of FileList are strictly increasing in lexicographic order.
C1_SortInvariant ==
    (GenerateSucceeded \/ LoadFound) => StrictlyIncreasing(Files)

\* A Load of the written files and of others the storage held, all sorted.
C1_Witness ==
    /\ LoadFound
    /\ persisted.done
    /\ Len(Files) > Len(persisted.FileList)
    /\ StrictlyIncreasing(Files)

\* No file is directly under manifestDir but the written ones.
OnlyWrittenManifests ==
    \A f \in Matching : f.Filename \in PathsOf(persisted.FileList)

LoadedWhatWasWritten ==
    /\ loadResult.found
    /\ ~loadResult.err
    /\ Files = persisted.FileList
    /\ m.KubeSysConfig = persisted.KubeSysConfig

\* C2 as stated: whatever the storage the files of a successful Generate
\* were written to, a Load that reads it finds the anchor, returns no error,
\* and leaves the generated FileList and KubeSysConfig.
C2_RoundTripAnyStorage ==
    (origin = "load" /\ persisted.done /\ ~loadResult.fetchErr)
    => LoadedWhatWasWritten

\* C2, amended: when the storage holds no other file directly under
\* manifests/ than the written ones and the fetch succeeds, Load finds the
\* anchor, returns no error, and leaves a FileList equal to the generated one
\* (paths, bytes, order) and a KubeSysConfig equal to the generated one.
C2_RoundTrip ==
    (/\ origin = "load"
     /\ persisted.done
     /\ ~loadResult.fetchErr
     /\ OnlyWrittenManifests) => LoadedWhatWasWritten

C2_Witness ==
    /\ origin = "load"
    /\ persisted.done
    /\ ~loadResult.fetchErr
    /\ OnlyWrittenManifests
    /\ LoadedWhatWasWritten
    /\ Len(Files) = 1 + Len(assetData) + 5

\* C3: a template that fails to parse or to execute never ends the process:
\* Generate does not panic.
C3_RenderNeverPanics == genResult # "panic"

\* C4: when the fetch succeeds and no stored file directly under manifests/
\* is at the anchor path, Load returns found = false and no error.
C4_MissingAnchorNotFound ==
    (/\ origin = "load"
     /\ ~loadResult.fetchErr
     /\ \A f \in Matching : f.Filename # kubeSysConfigPath)
    => (~loadResult.found /\ ~loadResult.err)

\* Other files are directly under manifests/, the anchor is not.
C4_Witness ==
    /\ origin = "load"
    /\ ~loadResult.fetchErr
    /\ Matching # {}
    /\ \A f \in Matching : f.Filename # kubeSysConfigPath
    /\ ~loadResult.found
    /\ ~loadResult.err

UndecodableAnchor ==
    \E f \in Matching : f.Filename = kubeSysConfigPath /\ Unmarshal(f.Data).err

\* C5: when the fetch succeeds and the file at the anchor path does not
\* decode, Load returns an error and found = false, wherever the anchor is
\* among the enumerated files.
C5_UndecodableAnchorIsError ==
    (origin = "load" /\ ~loadResult.fetchErr /\ UndecodableAnchor)
    => (loadResult.err /\ ~loadResult.found)

\* The undecodable anchor is enumerated among other files.
C5_Witness ==
    /\ origin = "load"
    /\ ~loadResult.fetchErr
    /\ UndecodableAnchor
    /\ Cardinality(Matching) >= 3
    /\ loadResult.err

\* The paths of the full merged set of a Generate from the parents.
FullPaths ==
    {kubeSysConfigPath}
    \cup {Join(manifestDir, assetData[i].name) : i \in 1..Len(assetData)}
    \cup UNION {PathsOf(parents[u].Files) : u \in SubUnits \cap DOMAIN parents}

\* C6: when Generate does not complete successfully, FileList is not a
\* non-empty strict subset of the full merged set.
C6_NoPartialFileList ==
    (origin = "generate" /\ genResult \in {"error", "panic"})
    => ~(/\ Files # <<>>
         /\ PathsOf(Files) \subseteq FullPaths
         /\ PathsOf(Files) # FullPaths)

\* C7: the successful Generate runs from one dependency set leave the same
\* FileList, whatever order the map was ranged over in each.
C7_Determinism ==
    \A i, j \in 1..Len(runs) : runs[i] = runs[j]

C7_Witness ==
    /\ Len(runs) >= 2
    /\ runs[1] = runs[2]
    /\ GenerateSucceeded

\* "-etcd-" followed by the digit of i, for i < 10.
EtcdSuffix(i) == <<"-", "e", "t", "c", "d", "-", Digits[i + 1]>>

DemoHostnames ==
    << <<"d", "e", "m", "o", "-", "e", "t", "c", "d", "-", "0">>,
       <<"d", "e", "m", "o", "-", "e", "t", "c", "d", "-", "1">>,
       <<"d", "e", "m", "o", "-", "e", "t", "c", "d", "-", "2">> >>

ContextBuilt == templateData # NoTemplateData

\* C8: the context's etcd endpoint hostnames are one per master, the i-th
\* (from 0) being the cluster name followed by "-etcd-" and i; for the
\* cluster "demo" with 3 masters they are demo-etcd-0, demo-etcd-1,
\* demo-etcd-2.
C8_EtcdHostnames ==
    ContextBuilt =>
        LET config == parents["InstallConfig"].Config
            names == templateData.EtcdEndpointHostnames
        IN  /\ Len(names) = config.Masters
            /\ \A i \in 0..(config.Masters - 1) :
                  names[i + 1] = config.Name \o EtcdSuffix(i)
            /\ (config.Name = nameDemo /\ config.Masters = 3)
                  => names = DemoHostnames

C8_Witness ==
    /\ ContextBuilt
    /\ parents["InstallConfig"].Config.Masters = 3
    /\ templateData.EtcdEndpointHostnames = DemoHostnames

\* C9: no Unit is generated more than once, and what Generate embedded in
\* the anchor and what generateBootKubeManifests put in the context come
\* from the one InstallConfig among the parents.
C9_Memoization ==
    /\ \A u \in DOMAIN genCount : genCount[u] <= 1
    /\ ContextBuilt =>
        LET installConfig == parents["InstallConfig"]
        IN  /\ m.KubeSysConfig.data["install-config"]
                  = installConfig.Files[1].Data
            /\ templateData.EtcdEndpointDNSSuffix
                  = installConfig.Config.BaseDomain
            /\ templateData.PullSecretBase64
                  = <<"base64(">> \o installConfig.Config.PullSecret \o <<")">>
            /\ Len(templateData.EtcdEndpointHostnames)
                  = installConfig.Config.Masters

C9_Witness ==
    /\ GenerateSucceeded
    /\ Len(runs) = 2
    /\ \A u \in Declared : genCount[u] = 1
    /\ parents["InstallConfig"].Config.Masters > 0
    /\ m.KubeSysConfig.data["install-config"]
          = parents["InstallConfig"].Files[1].Data

\* C10: every Unit read through dependencies.Get is declared by
\* Dependencies and is among the resolved parents.
C10_FetchedAreDeclared ==
    /\ fetched \subseteq Declared
    /\ fetched \subseteq DOMAIN parents

C10_Witness ==
    /\ origin = "generate"
    /\ "MCSCertKey" \in fetched
    /\ "HostEtcdServiceKubeSystem" \in fetched
    /\ "Infrastructure" \in fetched
    /\ Cardinality(fetched) = 25

====
